---- MODULE Spec2Model ----
(***************************************************************************)
(* A model of src/src/cdcl_solver.py: parse_dimacs, the CDCLSolver class   *)
(* (constructor, assign_var, propagate, branch_var, backtrack, solve,      *)
(* resolve_conflict) and the __main__ driver.                              *)
(*                                                                         *)
(* Conventions.  Clause indices are 1-based here (Python index + 1), so    *)
(* None is 0 for a clause index, a literal and a variable alike.           *)
(* var_activity holds floats in the source; here var_activity[v] is the    *)
(* numerator of the activity over the common denominator activity_unit     *)
(* (1.0 is activity_unit, a decay multiplies numerators by 19 and the      *)
(* denominator by 20), which keeps every comparison of branch_var exact.   *)
(*                                                                         *)
(* solve() calls self.pick_branch_var(), a method the class under src/     *)
(* does not define (as given, the call raises AttributeError), and the     *)
(* tests call cdcl_solver.solve_cdcl, which src/ does not define either.   *)
(* Both are modelled from the specification (sections 4.6 and 6.1).        *)
(***************************************************************************)
EXTENDS Integers, Sequences, FiniteSets, TLC

\* Bounds of the model: the inputs drawn by Init.
MaxVars == 2
MaxClauses == 3
MaxLen == 2
MaxLines == 2

\* Program constants.
None == 0
decay_num == 19
decay_den == 20
decay_interval == 50

VARIABLES
  file,            \* __main__: the lines of the DIMACS file; <<>> for a direct build
  in_clauses,      \* the constructor's argument clauses (the original input)
  in_num_vars,     \* the constructor's argument num_vars
  clauses, num_vars, assign_val, assign_level, reason, level,
  watch_lit_to_clauses, watchers, assign_stack, prop_queue,
  var_activity, activity_unit, conflict_count,
  conflict,        \* solve's local: what the last propagate() returned
  pc,              \* where the driver stands
  result           \* "none" while running; "SAT", "UNSAT" or the exception raised

vars == <<file, in_clauses, in_num_vars, clauses, num_vars, assign_val,
          assign_level, reason, level, watch_lit_to_clauses, watchers,
          assign_stack, prop_queue, var_activity, activity_unit,
          conflict_count, conflict, pc, result>>

Abs(x) == IF x < 0 THEN -x ELSE x

Lits(n) == {l \in (-n)..n : l # 0}

\* ---------------------------------------------------------------- inputs

SeqsUpTo(S, n) == UNION {[1..k -> S] : k \in 0..n}

\* Every clause list of at most MaxClauses clauses of at most MaxLen literals
\* over 1..n, n <= MaxVars: empty clauses, duplicate literals and
\* tautologies included.
Inputs ==
  UNION {{[nv |-> n, cls |-> c] : c \in SeqsUpTo(SeqsUpTo(Lits(n), MaxLen), MaxClauses)}
         : n \in 0..MaxVars}

\* Larger inputs: scenarios 3 and 5 of the specification, the inputs of
\* test_solve_cdcl_multiple_solutions_sat and
\* test_solve_cdcl_var_not_in_any_clause, and two further inputs over three
\* variables: one with a clause of three distinct literals, one with a unit
\* clause beside two binary clauses; then a single clause that repeats a
\* literal, and an input with a tautology and a repeated literal.
Scenarios ==
  { [nv |-> 3, cls |-> << <<1>>, <<2, 3>>, <<-2, 3>> >>],
    [nv |-> 4, cls |-> << <<1, 2>>, <<-1, 3>>, <<-2, 4>>, <<-3, -4>> >>],
    [nv |-> 3, cls |-> << <<1, 2>>, <<1, -2>>, <<-1, 3>> >>],
    [nv |-> 3, cls |-> << <<1, 2>> >>],
    [nv |-> 3, cls |-> << <<-1, -3>>, <<3, -1, -2>>, <<-1, 2>> >>],
    [nv |-> 3, cls |-> << <<1>>, <<-2, 3>>, <<-2, -3>> >>],
    [nv |-> 2, cls |-> << <<-1, -1, -2>> >>],
    [nv |-> 3, cls |-> << <<3, -2>>, <<-3, -3>>, <<-3, 3>>, <<-2, -1, -3>> >>] }

\* A line of a DIMACS file after line.strip(): kind is what the parser's
\* tests on the text see ("blank": empty, "c"/"p": its first character,
\* "lits": anything else), ints the integers of line.split() (for a "p"
\* line, parts[2] and parts[3]).
Line(k, i) == [kind |-> k, ints |-> i]

BodyLines ==
  { Line("lits", <<0>>), Line("lits", <<1, 0>>), Line("lits", <<-1, 0>>),
    Line("lits", <<1, -2, 0>>), Line("lits", <<2, 0, 0>>),
    Line("c", <<>>), Line("blank", <<>>) }

Files ==
  {<<Line("p", <<2, Len(b)>>)>> \o b : b \in SeqsUpTo(BodyLines, MaxLines)}

\* ------------------------------------------------------------ parse_dimacs

NonZero(x) == x # 0

\* The loop of parse_dimacs over the lines from position k on, with the
\* clauses and num_vars accumulated so far.
RECURSIVE parse_lines(_, _, _, _)
parse_lines(f, k, cls, nv) ==
  IF k > Len(f) THEN [clauses |-> cls, num_vars |-> nv]
  ELSE LET line == f[k] IN
       IF line.kind = "blank" \/ line.kind = "c" THEN parse_lines(f, k + 1, cls, nv)
       ELSE IF line.kind = "p" THEN parse_lines(f, k + 1, cls, line.ints[1])
       ELSE LET lits == SelectSeq(line.ints, NonZero) IN
            IF lits # <<>> THEN parse_lines(f, k + 1, Append(cls, lits), nv)
            ELSE parse_lines(f, k + 1, cls, nv)

\* A Python value together with its type: what a caller that unpacks a
\* returned tuple receives in each position.
PyInt(n) == [type |-> "int", val |-> n]

PyList(l) == [type |-> "list", val |-> l]

\* Line 19: return clauses, num_vars -- the clause list first, the variable
\* count second.
parse_dimacs(f) ==
  LET p == parse_lines(f, 1, <<>>, 0)
  IN  <<PyList(p.clauses), PyInt(p.num_vars)>>

\* ------------------------------------------------- the solver object, pure

\* The solver's fields as a record, so that the methods are operators from
\* a solver state to a solver state.
Self ==
  [clauses |-> clauses, num_vars |-> num_vars, assign_val |-> assign_val,
   assign_level |-> assign_level, reason |-> reason, level |-> level,
   watch_lit_to_clauses |-> watch_lit_to_clauses, watchers |-> watchers,
   assign_stack |-> assign_stack, prop_queue |-> prop_queue,
   var_activity |-> var_activity, activity_unit |-> activity_unit,
   conflict_count |-> conflict_count]

HasEmptyClause(cls) == \E i \in 1..Len(cls) : Len(cls[i]) = 0

\* The two watch slots chosen for a clause (constructor and resolve_conflict).
first_watches(clause) ==
  IF Len(clause) >= 2 THEN <<clause[1], clause[2]>> ELSE <<clause[1], clause[1]>>

\* Registering clause ci under its watch slots w in the watch index.
add_watches(wl, w, ci) ==
  LET wl1 == [wl EXCEPT ![w[1]] = Append(@, ci)] IN
  IF w[2] # w[1] THEN [wl1 EXCEPT ![w[2]] = Append(@, ci)] ELSE wl1

\* The constructor's loop over the clauses from index i on.
RECURSIVE init_watches(_, _, _)
init_watches(cls, i, wl) ==
  IF i > Len(cls) THEN wl
  ELSE init_watches(cls, i + 1, add_watches(wl, first_watches(cls[i]), i))

\* CDCLSolver.__init__ on a clause list without an empty clause.
new_solver(cls, n) ==
  [clauses |-> cls, num_vars |-> n,
   assign_val |-> [v \in 1..n |-> 0],
   assign_level |-> [v \in 1..n |-> 0],
   reason |-> [v \in 1..n |-> None],
   level |-> 0,
   watch_lit_to_clauses |-> init_watches(cls, 1, [l \in Lits(n) |-> <<>>]),
   watchers |-> [i \in 1..Len(cls) |-> first_watches(cls[i])],
   assign_stack |-> <<>>, prop_queue |-> <<>>,
   var_activity |-> [v \in 1..n |-> 0], activity_unit |-> 1,
   conflict_count |-> 0]

\* A slip of line 51: the sign test reversed.
assign_var_flipped(s, lit, lvl, rsn) ==
  [s EXCEPT !.assign_val[Abs(lit)] = IF lit > 0 THEN -1 ELSE 1,
            !.assign_level[Abs(lit)] = lvl,
            !.reason[Abs(lit)] = rsn,
            !.assign_stack = Append(@, <<Abs(lit), lit, lvl>>),
            !.prop_queue = Append(@, lit)]

assign_var(s, lit, lvl, rsn) ==
  [s EXCEPT !.assign_val[Abs(lit)] = IF lit > 0 THEN 1 ELSE -1,
            !.assign_level[Abs(lit)] = lvl,
            !.reason[Abs(lit)] = rsn,
            !.assign_stack = Append(@, <<Abs(lit), lit, lvl>>),
            !.prop_queue = Append(@, lit)]

\* The test of lines 73 and 81 on a literal's value.
lit_true(s, lit) ==
  LET val == s.assign_val[Abs(lit)] IN
  val # 0 /\ ((lit > 0 /\ val = 1) \/ (lit < 0 /\ val = -1))

lit_not_false(s, lit) ==
  LET val == s.assign_val[Abs(lit)] IN
  val = 0 \/ (lit > 0 /\ val = 1) \/ (lit < 0 /\ val = -1)

\* list.remove: the first occurrence of x is dropped.
RECURSIVE remove_first(_, _)
remove_first(q, x) ==
  IF q = <<>> THEN <<>>
  ELSE IF Head(q) = x THEN Tail(q)
  ELSE <<Head(q)>> \o remove_first(Tail(q), x)

\* Lines 76-86: the position, from k on, of the first literal of clause ci
\* that is neither watch slot and is not false; 0 when there is none.
RECURSIVE find_new(_, _, _, _, _)
find_new(s, ci, w1, w2, k) ==
  IF k > Len(s.clauses[ci]) THEN 0
  ELSE LET lit2 == s.clauses[ci][k] IN
       IF lit2 = w1 \/ lit2 = w2 THEN find_new(s, ci, w1, w2, k + 1)
       ELSE IF lit_not_false(s, lit2) THEN k
       ELSE find_new(s, ci, w1, w2, k + 1)

\* A slip of lines 87-89: the clause whose other watch is false is passed
\* over instead of being returned as the conflict.
propagate_clause_blind(s, target, ci) ==
  LET w1 == s.watchers[ci][1]
      w2 == s.watchers[ci][2]
  IN
  IF w1 # target /\ w2 # target THEN [s |-> s, conflict |-> None]
  ELSE
    LET other == IF w1 = target THEN w2 ELSE w1
        idx_watch == IF w1 = target THEN 1 ELSE 2
        k == find_new(s, ci, w1, w2, 1)
    IN
    IF lit_true(s, other) THEN [s |-> s, conflict |-> None]
    ELSE IF k # 0 THEN
      LET lit2 == s.clauses[ci][k] IN
      [s |-> [s EXCEPT !.watchers[ci][idx_watch] = lit2,
                       !.watch_lit_to_clauses[lit2] = Append(@, ci),
                       !.watch_lit_to_clauses[target] = remove_first(@, ci)],
       conflict |-> None]
    ELSE IF s.assign_val[Abs(other)] # 0 THEN [s |-> s, conflict |-> None]
    ELSE [s |-> assign_var(s, other, s.level, ci), conflict |-> None]

\* A slip of lines 82-84: the watch move also swaps the new watch with the
\* old one inside the clause's literal list.
propagate_clause_swapping(s, target, ci) ==
  LET w1 == s.watchers[ci][1]
      w2 == s.watchers[ci][2]
  IN
  IF w1 # target /\ w2 # target THEN [s |-> s, conflict |-> None]
  ELSE
    LET other == IF w1 = target THEN w2 ELSE w1
        idx_watch == IF w1 = target THEN 1 ELSE 2
        k == find_new(s, ci, w1, w2, 1)
    IN
    IF lit_true(s, other) THEN [s |-> s, conflict |-> None]
    ELSE IF k # 0 THEN
      LET lit2 == s.clauses[ci][k]
          p == CHOOSE p \in 1..Len(s.clauses[ci]) : s.clauses[ci][p] = target
      IN
      [s |-> [s EXCEPT !.watchers[ci][idx_watch] = lit2,
                       !.watch_lit_to_clauses[lit2] = Append(@, ci),
                       !.watch_lit_to_clauses[target] = remove_first(@, ci),
                       !.clauses[ci] = [@ EXCEPT ![k] = target, ![p] = lit2]],
       conflict |-> None]
    ELSE IF s.assign_val[Abs(other)] # 0 THEN [s |-> s, conflict |-> ci]
    ELSE [s |-> assign_var(s, other, s.level, ci), conflict |-> None]

\* Lines 62-90: the body of propagate's loop for one clause ci watching
\* target.  conflict is ci when the body returns it, None otherwise.
propagate_clause(s, target, ci) ==
  LET w1 == s.watchers[ci][1]
      w2 == s.watchers[ci][2]
  IN
  IF w1 # target /\ w2 # target THEN [s |-> s, conflict |-> None]
  ELSE
    LET other == IF w1 = target THEN w2 ELSE w1
        idx_watch == IF w1 = target THEN 1 ELSE 2
        k == find_new(s, ci, w1, w2, 1)
    IN
    IF lit_true(s, other) THEN [s |-> s, conflict |-> None]
    ELSE IF k # 0 THEN
      LET lit2 == s.clauses[ci][k] IN
      [s |-> [s EXCEPT !.watchers[ci][idx_watch] = lit2,
                       !.watch_lit_to_clauses[lit2] = Append(@, ci),
                       !.watch_lit_to_clauses[target] = remove_first(@, ci)],
       conflict |-> None]
    ELSE IF s.assign_val[Abs(other)] # 0 THEN [s |-> s, conflict |-> ci]
    ELSE [s |-> assign_var(s, other, s.level, ci), conflict |-> None]

\* Line 61: the loop over the snapshot list(watch_lit_to_clauses[target]).
RECURSIVE propagate_watchers(_, _, _, _)
propagate_watchers(s, target, snap, k) ==
  IF k > Len(snap) THEN [s |-> s, conflict |-> None]
  ELSE LET r == propagate_clause(s, target, snap[k]) IN
       IF r.conflict # None THEN r
       ELSE propagate_watchers(r.s, target, snap, k + 1)

\* propagate(): the queue is drained, or a clause index is returned with the
\* rest of the queue left as it stands.
RECURSIVE propagate(_)
propagate(s) ==
  IF s.prop_queue = <<>> THEN [s |-> s, conflict |-> None]
  ELSE LET lit == Head(s.prop_queue)
           s1 == [s EXCEPT !.prop_queue = Tail(@)]
           r == propagate_watchers(s1, -lit, s1.watch_lit_to_clauses[-lit], 1)
       IN IF r.conflict # None THEN r ELSE propagate(r.s)

\* A slip of line 99: >= for >, so that the last of equals is kept.
RECURSIVE branch_loop_ge(_, _, _, _)
branch_loop_ge(s, v, best_var, best_act) ==
  IF v > s.num_vars THEN best_var
  ELSE IF s.assign_val[v] = 0 /\ s.var_activity[v] >= best_act
       THEN branch_loop_ge(s, v + 1, v, s.var_activity[v])
       ELSE branch_loop_ge(s, v + 1, best_var, best_act)

\* branch_var(): the loop over v = 1..num_vars with best_var and best_act
\* (best_act starts at -1.0, which is -activity_unit here).
RECURSIVE branch_loop(_, _, _, _)
branch_loop(s, v, best_var, best_act) ==
  IF v > s.num_vars THEN best_var
  ELSE IF s.assign_val[v] = 0 /\ s.var_activity[v] > best_act
       THEN branch_loop(s, v + 1, v, s.var_activity[v])
       ELSE branch_loop(s, v + 1, best_var, best_act)

branch_var(s) == branch_loop(s, 1, None, -s.activity_unit)

\* pick_branch_var(): called by solve, defined nowhere under src/; modelled
\* from section 4.6: the unassigned variable of maximum activity, the
\* smallest index among equals, None when every variable is assigned.
pick_branch_var(s) ==
  LET U == {v \in 1..s.num_vars : s.assign_val[v] = 0} IN
  IF U = {} THEN None
  ELSE CHOOSE v \in U : \A w \in U :
         \/ s.var_activity[v] > s.var_activity[w]
         \/ (s.var_activity[v] = s.var_activity[w] /\ v <= w)

\* A slip of line 107: >= for >, so that backtrack(b) also pops level b.
RECURSIVE backtrack_inclusive(_, _)
backtrack_inclusive(s, backtrack_level) ==
  IF s.assign_stack # <<>> /\ s.assign_stack[Len(s.assign_stack)][3] >= backtrack_level
  THEN LET var == s.assign_stack[Len(s.assign_stack)][1] IN
       backtrack_inclusive([s EXCEPT !.assign_stack = SubSeq(@, 1, Len(@) - 1),
                                     !.assign_val[var] = 0,
                                     !.assign_level[var] = 0,
                                     !.reason[var] = None],
                           backtrack_level)
  ELSE s

\* A slip of line 107: `if` for `while`, so that at most one entry is popped.
backtrack_once(s, backtrack_level) ==
  IF s.assign_stack # <<>> /\ s.assign_stack[Len(s.assign_stack)][3] > backtrack_level
  THEN LET var == s.assign_stack[Len(s.assign_stack)][1] IN
       [s EXCEPT !.assign_stack = SubSeq(@, 1, Len(@) - 1),
                 !.assign_val[var] = 0,
                 !.assign_level[var] = 0,
                 !.reason[var] = None]
  ELSE s

\* A slip of line 111: the antecedent of a popped variable is not cleared.
RECURSIVE backtrack_keep_reason(_, _)
backtrack_keep_reason(s, backtrack_level) ==
  IF s.assign_stack # <<>> /\ s.assign_stack[Len(s.assign_stack)][3] > backtrack_level
  THEN LET var == s.assign_stack[Len(s.assign_stack)][1] IN
       backtrack_keep_reason([s EXCEPT !.assign_stack = SubSeq(@, 1, Len(@) - 1),
                                       !.assign_val[var] = 0,
                                       !.assign_level[var] = 0],
                             backtrack_level)
  ELSE s

\* backtrack(backtrack_level)
RECURSIVE backtrack(_, _)
backtrack(s, backtrack_level) ==
  IF s.assign_stack # <<>> /\ s.assign_stack[Len(s.assign_stack)][3] > backtrack_level
  THEN LET var == s.assign_stack[Len(s.assign_stack)][1] IN
       backtrack([s EXCEPT !.assign_stack = SubSeq(@, 1, Len(@) - 1),
                           !.assign_val[var] = 0,
                           !.assign_level[var] = 0,
                           !.reason[var] = None],
                 backtrack_level)
  ELSE s

InSeq(x, q) == \E i \in 1..Len(q) : q[i] = x

\* Lines 151-157: the literal of the latest trail entry of the current level
\* that occurs in learned, scanning the trail from position k downwards;
\* None when there is none.
RECURSIVE last_assigned_in(_, _, _)
last_assigned_in(s, learned, k) ==
  IF k = 0 THEN None
  ELSE IF s.assign_stack[k][3] = s.level /\ InSeq(s.assign_stack[k][2], learned)
       THEN s.assign_stack[k][2]
       ELSE last_assigned_in(s, learned, k - 1)

\* Lines 167-169: the literals of reason_clause from position k on are
\* appended to new_clause unless they are pos, neg or already there.
RECURSIVE add_reason_lits(_, _, _, _)
add_reason_lits(new_clause, reason_clause, pos, k) ==
  IF k > Len(reason_clause) THEN new_clause
  ELSE LET lit == reason_clause[k] IN
       IF lit # pos /\ lit # -pos /\ ~InSeq(lit, new_clause)
       THEN add_reason_lits(Append(new_clause, lit), reason_clause, pos, k + 1)
       ELSE add_reason_lits(new_clause, reason_clause, pos, k + 1)

\* Lines 147-170: the analysis loop of resolve_conflict, from learned.
RECURSIVE analyze(_, _)
analyze(s, learned) ==
  LET AtLevel(lit) == s.assign_level[Abs(lit)] = s.level
      curr_level_lits == SelectSeq(learned, AtLevel)
      last_assigned == last_assigned_in(s, learned, Len(s.assign_stack))
  IN
  IF Len(curr_level_lits) <= 1 THEN learned
  ELSE IF last_assigned = None THEN learned
  ELSE IF s.reason[Abs(last_assigned)] = None THEN learned
  ELSE LET NotVar(lit) == lit # last_assigned /\ lit # -last_assigned IN
       analyze(s, add_reason_lits(SelectSeq(learned, NotVar),
                                  s.clauses[s.reason[Abs(last_assigned)]],
                                  last_assigned, 1))

\* Lines 171-173: one bump of 1.0 per literal of learned from position k on.
RECURSIVE bump(_, _, _, _)
bump(act, unit, learned, k) ==
  IF k > Len(learned) THEN act
  ELSE bump([act EXCEPT ![Abs(learned[k])] = @ + unit], unit, learned, k + 1)

\* Lines 177-181: the backtrack level, over learned from position k on.
RECURSIVE backtrack_level_of(_, _, _, _)
backtrack_level_of(s, learned, k, best) ==
  IF k > Len(learned) THEN best
  ELSE LET lvl == s.assign_level[Abs(learned[k])] IN
       IF lvl # s.level /\ lvl > best
       THEN backtrack_level_of(s, learned, k + 1, lvl)
       ELSE backtrack_level_of(s, learned, k + 1, best)

\* resolve_conflict(clause_idx): the solver state it leaves and the Boolean
\* it returns.
resolve_conflict(s, clause_idx) ==
  IF s.level = 0 THEN [s |-> s, ok |-> FALSE]
  ELSE
    LET learned == analyze(s, s.clauses[clause_idx])
        count == s.conflict_count + 1
        bumped == bump(s.var_activity, s.activity_unit, learned, 1)
        decayed == count % decay_interval = 0
        act == IF decayed THEN [v \in 1..s.num_vars |-> bumped[v] * decay_num]
               ELSE bumped
        unit == IF decayed THEN s.activity_unit * decay_den ELSE s.activity_unit
        backtrack_level == backtrack_level_of(s, learned, 1, 0)
        s1 == [backtrack(s, backtrack_level) EXCEPT
                 !.conflict_count = count, !.var_activity = act,
                 !.activity_unit = unit, !.level = backtrack_level,
                 !.clauses = Append(@, learned)]
        ci == Len(s1.clauses)
    IN
    IF Len(learned) = 0 THEN [s |-> s1, ok |-> FALSE]
    ELSE
      LET w == first_watches(learned)
          s2 == [s1 EXCEPT !.watchers = Append(@, w),
                           !.watch_lit_to_clauses = add_watches(@, w, ci)]
      IN
      IF Len(learned) = 1 /\ s2.assign_val[Abs(learned[1])] = 0
      THEN [s |-> assign_var(s2, learned[1], s2.level, ci), ok |-> TRUE]
      ELSE [s |-> s2, ok |-> TRUE]

\* A slip of lines 119-122: the test on the variable's value is left out and
\* every unit clause is assigned.
RECURSIVE assign_units_unguarded(_, _)
assign_units_unguarded(s, i) ==
  IF i > Len(s.clauses) THEN [s |-> s, failed |-> FALSE]
  ELSE IF Len(s.clauses[i]) # 1 THEN assign_units_unguarded(s, i + 1)
  ELSE assign_units_unguarded(assign_var(s, s.clauses[i][1], 0, None), i + 1)

\* Lines 114-123: the loop of solve over the unit clauses from index i on;
\* failed when it returns False at line 121.
RECURSIVE assign_units(_, _)
assign_units(s, i) ==
  IF i > Len(s.clauses) THEN [s |-> s, failed |-> FALSE]
  ELSE IF Len(s.clauses[i]) # 1 THEN assign_units(s, i + 1)
  ELSE LET lit == s.clauses[i][1]
           val == IF lit > 0 THEN 1 ELSE -1
       IN
       IF s.assign_val[Abs(lit)] # 0
       THEN IF s.assign_val[Abs(lit)] # val THEN [s |-> s, failed |-> TRUE]
            ELSE assign_units(s, i + 1)
       ELSE assign_units(assign_var(s, lit, 0, None), i + 1)

\* A slip of line 128: the range stops one variable short.
all_assigned_short(s) == \A i \in 1..(s.num_vars - 1) : s.assign_val[i] # 0

\* Line 128
all_assigned(s) == \A i \in 1..s.num_vars : s.assign_val[i] # 0

\* __main__, lines 211-219: the literal printed for variable v is negative
\* when its value is -1 and positive otherwise; as a Boolean per variable.
model_of(s) == [v \in 1..s.num_vars |-> s.assign_val[v] # -1]

\* ------------------------------------------------------------ the program

\* The solver's fields become those of the record s.
Becomes(s) ==
  /\ clauses' = s.clauses
  /\ num_vars' = s.num_vars
  /\ assign_val' = s.assign_val
  /\ assign_level' = s.assign_level
  /\ reason' = s.reason
  /\ level' = s.level
  /\ watch_lit_to_clauses' = s.watch_lit_to_clauses
  /\ watchers' = s.watchers
  /\ assign_stack' = s.assign_stack
  /\ prop_queue' = s.prop_queue
  /\ var_activity' = s.var_activity
  /\ activity_unit' = s.activity_unit
  /\ conflict_count' = s.conflict_count

solver_vars == <<clauses, num_vars, assign_val, assign_level, reason, level,
                 watch_lit_to_clauses, watchers, assign_stack, prop_queue,
                 var_activity, activity_unit, conflict_count>>

input_vars == <<file, in_clauses, in_num_vars>>

\* The number of distinct literal sets over n variables: what the number of
\* conflicts of a solve that learns a new clause at every conflict cannot
\* exceed.  A solve is followed for one conflict more than that.
ClauseSets(n) == 4 ^ n

NoSolver == new_solver(<<>>, 0)

InitSolver ==
  /\ clauses = NoSolver.clauses
  /\ num_vars = NoSolver.num_vars
  /\ assign_val = NoSolver.assign_val
  /\ assign_level = NoSolver.assign_level
  /\ reason = NoSolver.reason
  /\ level = NoSolver.level
  /\ watch_lit_to_clauses = NoSolver.watch_lit_to_clauses
  /\ watchers = NoSolver.watchers
  /\ assign_stack = NoSolver.assign_stack
  /\ prop_queue = NoSolver.prop_queue
  /\ var_activity = NoSolver.var_activity
  /\ activity_unit = NoSolver.activity_unit
  /\ conflict_count = NoSolver.conflict_count
  /\ conflict = None
  /\ result = "none"

\* Either __main__ is started on a DIMACS file, or a caller is about to build
\* a solver from (clauses, num_vars).
Init ==
  /\ InitSolver
  /\ \/ /\ file \in Files
        /\ in_clauses = <<>>
        /\ in_num_vars = 0
        /\ pc = "parse"
     \/ /\ file = <<>>
        /\ \E i \in Inputs \cup Scenarios :
             /\ in_clauses = i.cls
             /\ in_num_vars = i.nv
        /\ pc = "build"

\* __main__, line 207: clauses, num_vars = parse_dimacs(sys.argv[1])
ParseDimacs ==
  /\ pc = "parse"
  /\ LET p == parse_dimacs(file) IN
       /\ in_clauses' = p[1].val
       /\ in_num_vars' = p[2].val
  /\ pc' = "build"
  /\ UNCHANGED <<file, solver_vars, conflict, result>>

\* CDCLSolver(clauses, num_vars): the constructor raises ValueError on an
\* empty clause, and nothing under src/ catches it.
Build ==
  /\ pc = "build"
  /\ IF HasEmptyClause(in_clauses)
     THEN /\ pc' = "done"
          /\ result' = "ValueError"
          /\ UNCHANGED solver_vars
     ELSE /\ Becomes(new_solver(in_clauses, in_num_vars))
          /\ pc' = "solve"
          /\ UNCHANGED result
  /\ UNCHANGED <<input_vars, conflict>>

\* solve(), lines 114-126: the unit clauses and the first propagation.
SolveInit ==
  /\ pc = "solve"
  /\ LET u == assign_units(Self, 1)
         r == propagate(u.s)
     IN
     IF u.failed
     THEN /\ Becomes(u.s)
          /\ pc' = "done"
          /\ result' = "UNSAT"
          /\ UNCHANGED conflict
     ELSE /\ Becomes(r.s)
          /\ conflict' = r.conflict
          /\ IF r.conflict # None
             THEN pc' = "done" /\ result' = "UNSAT"
             ELSE pc' = "loop" /\ UNCHANGED result
  /\ UNCHANGED input_vars

\* solve(), lines 128-132: return True.
ReturnSat ==
  /\ pc = "loop"
  /\ all_assigned(Self) \/ pick_branch_var(Self) = None
  /\ pc' = "done"
  /\ result' = "SAT"
  /\ UNCHANGED <<input_vars, solver_vars, conflict>>

\* A slip of line 134: the decision takes the negative phase.
DecideNegative ==
  /\ pc = "loop"
  /\ ~all_assigned(Self)
  /\ LET var == pick_branch_var(Self) IN
       /\ var # None
       /\ Becomes(assign_var([Self EXCEPT !.level = @ + 1], -var, level + 1, None))
  /\ pc' = "propagate"
  /\ UNCHANGED <<input_vars, conflict, result>>

\* solve(), lines 130-134: a decision.
Decide ==
  /\ pc = "loop"
  /\ ~all_assigned(Self)
  /\ LET var == pick_branch_var(Self) IN
       /\ var # None
       /\ Becomes(assign_var([Self EXCEPT !.level = @ + 1], var, level + 1, None))
  /\ pc' = "propagate"
  /\ UNCHANGED <<input_vars, conflict, result>>

\* solve(), lines 136-138: conflict = self.propagate()
Propagate ==
  /\ pc = "propagate"
  /\ LET r == propagate(Self) IN
       /\ Becomes(r.s)
       /\ conflict' = r.conflict
       /\ pc' = IF r.conflict = None THEN "loop" ELSE "resolve"
  /\ UNCHANGED <<input_vars, result>>

\* solve(), lines 139-140: if not self.resolve_conflict(conflict): return False
ResolveConflict ==
  /\ pc = "resolve"
  /\ conflict_count <= ClauseSets(num_vars)
  /\ LET r == resolve_conflict(Self, conflict) IN
       /\ Becomes(r.s)
       /\ IF r.ok
          THEN pc' = "propagate" /\ UNCHANGED result
          ELSE pc' = "done" /\ result' = "UNSAT"
  /\ UNCHANGED <<input_vars, conflict>>

Next ==
  \/ ParseDimacs
  \/ Build
  \/ SolveInit
  \/ ReturnSat
  \/ Decide
  \/ Propagate
  \/ ResolveConflict

Spec == Init /\ [][Next]_vars

\* ------------------------------------------------------------- the claims

\* The truth of a literal under a model (a Boolean per variable).
ModelTrue(m, lit) == (lit > 0 /\ m[Abs(lit)]) \/ (lit < 0 /\ ~m[Abs(lit)])

Satisfies(m, cls) ==
  \A i \in 1..Len(cls) : \E k \in 1..Len(cls[i]) : ModelTrue(m, cls[i][k])

Satisfiable(cls, n) == \E m \in [1..n -> BOOLEAN] : Satisfies(m, cls)

Returned(r) == pc = "done" /\ result = r

\* solve_cdcl(num_vars, clauses), the entry point the tests call; it is
\* defined nowhere under src/ and modelled from section 6.1: the pair
\* (sat, model), the model empty when sat is false.
solve_cdcl ==
  IF result = "SAT" THEN <<TRUE, model_of(Self)>> ELSE <<FALSE, <<>> >>

\* C1: whenever solve returns UNSAT, no assignment of the variables
\* 1..num_vars satisfies all the input clauses.
C1_UnsatIsSound ==
  Returned("UNSAT") => ~Satisfiable(in_clauses, in_num_vars)

\* C2: whenever solve returns SAT, every original input clause has a literal
\* that is true under the returned model.
C2_SatIsSound ==
  Returned("SAT") => Satisfies(model_of(Self), in_clauses)

\* C2's case: SAT is returned after a conflict has been analysed and the
\* solver has backjumped.
C2_Witness ==
  Returned("SAT") /\ conflict_count > 0 /\ Len(in_clauses) > 1

\* C3: on every satisfiable input, solve returns SAT: it has not stopped
\* with UNSAT or with an exception.
C3_SatisfiableGivesSat ==
  (pc = "done" /\ Satisfiable(in_clauses, in_num_vars)) => result = "SAT"

\* C4: the search stops with a verdict; it does not go round the decision /
\* conflict / backjump cycle for ever.  Every conflict of a terminating
\* search learns a clause it did not have, so the conflicts of a solve are
\* at most as many as the literal sets over its variables.
C4_SearchStops == conflict_count <= ClauseSets(num_vars)

C6_EmptyClauseGivesUnsat ==
  (pc = "done" /\ HasEmptyClause(in_clauses)) =>
    (result = "UNSAT" /\ assign_stack = <<>>)

HasContradictoryUnits(cls) ==
  \E i, j \in 1..Len(cls) :
    /\ Len(cls[i]) = 1
    /\ Len(cls[j]) = 1
    /\ cls[i][1] = -cls[j][1]

\* C7: on an input with two unit clauses [l] and [-l], whatever its other
\* clauses, solve returns UNSAT at level 0, with no decision made and no
\* conflict analysed.
C7_ContradictoryUnitsGiveUnsat ==
  (pc = "done" /\ HasContradictoryUnits(in_clauses)) =>
    /\ result = "UNSAT"
    /\ level = 0
    /\ conflict_count = 0
    /\ \A k \in 1..Len(assign_stack) : assign_stack[k][3] = 0

\* The clause lines of a file, in order.
ClauseLines(f) == SelectSeq(f, LAMBDA line : line.kind = "lits")

\* C8: a DIMACS file whose only clause line is the terminator 0 alone gives
\* UNSAT end to end.
C8_EmptyClauseLineGivesUnsat ==
  (pc = "done" /\ file # <<>> /\ ClauseLines(file) = <<Line("lits", <<0>>)>>) =>
    result = "UNSAT"

AllPositive(cls) ==
  \A i \in 1..Len(cls) : \A k \in 1..Len(cls[i]) : cls[i][k] > 0

\* Every decision on the trail (an entry above level 0 with no reason) has a
\* positive literal.
DecisionsArePositive ==
  \A k \in 1..Len(assign_stack) :
    (assign_stack[k][3] > 0 /\ reason[assign_stack[k][1]] = None)
      => assign_stack[k][2] > 0

AtLevelZero(v) == assign_val[v] # 0 /\ assign_level[v] = 0

\* C10: a variable that has a value at level 0 keeps that value and level
\* in every later step, and in every SAT model the literal of every input
\* unit clause is true.
C10_LevelZeroIsPermanent ==
  /\ [][\A v \in 1..num_vars :
          AtLevelZero(v) => (assign_val'[v] = assign_val[v] /\ assign_level'[v] = 0)]_vars
  /\ [](Returned("SAT") =>
          \A i \in 1..Len(in_clauses) :
            Len(in_clauses[i]) = 1 => lit_true(Self, in_clauses[i][1]))

\* C10's case: SAT is returned on an input with a unit clause after a
\* backjump.
C10_Witness ==
  /\ Returned("SAT")
  /\ conflict_count > 0
  /\ \E i \in 1..Len(in_clauses) : Len(in_clauses[i]) = 1

\* The variable count of the header: parts[2] of the file's `p cnf` line.
HeaderCount(f) ==
  LET ps == SelectSeq(f, LAMBDA line : line.kind = "p")
  IN  ps[Len(ps)].ints[1]

\* The clause lines of the file in file order, each as the nonzero integers
\* of its line in order.
NonZeroIntsOfLines(f) ==
  [k \in 1..Len(ClauseLines(f)) |-> SelectSeq(ClauseLines(f)[k].ints, NonZero)]

\* C12: parse_dimacs returns a pair whose first component is the variable
\* count of the `p cnf` header and whose second component is the list of the
\* clauses in file order, each the nonzero integers of its line; comment
\* lines and blank lines do not change the result.
C12_ParseReturnsCountThenClauses ==
  (file # <<>> /\ pc # "parse") =>
    LET r == parse_dimacs(file) IN
      /\ r[1].type = "int"
      /\ r[1].val = HeaderCount(file)
      /\ r[2].type = "list"
      /\ r[2].val = NonZeroIntsOfLines(file)

\* A literal is false: its variable has the opposite value.
LitFalse(lit) == assign_val[Abs(lit)] # 0 /\ ~lit_true(Self, lit)

AllFalse(ci) == \A k \in 1..Len(clauses[ci]) : LitFalse(clauses[ci][k])

\* propagate() has just returned the clause index in `conflict`: inside the
\* search (before resolve_conflict runs) or at level 0 in the first
\* propagation of solve().
ConflictReturned ==
  \/ pc = "resolve"
  \/ Returned("UNSAT") /\ conflict # None /\ conflict_count = 0

\* propagate() has just returned None.
NoConflictReturned == pc = "loop"

\* C13: propagate returns a clause index only if every literal of that
\* clause is false at the return, and returns no-conflict only when the
\* propagation queue is empty, in every call, those after a backjump
\* included.
C13_PropagateContract ==
  /\ ConflictReturned => AllFalse(conflict)
  /\ NoConflictReturned => prop_queue = <<>>

\* The literals of the trail, oldest first.
TrailLits == [k \in 1..Len(assign_stack) |-> assign_stack[k][2]]

IsSuffix(q, t) ==
  Len(q) <= Len(t) /\ \A k \in 1..Len(q) : q[k] = t[Len(t) - Len(q) + k]

\* C14 (Q1): in every reachable state every literal of the propagation
\* queue is assigned true, and the queue is, in order, a suffix of the
\* trail; so after a conflict and a backtrack the queue holds no literal of
\* an unassigned variable.
C14_QueueIsTrailSuffix ==
  /\ \A k \in 1..Len(prop_queue) : lit_true(Self, prop_queue[k])
  /\ IsSuffix(prop_queue, TrailLits)

BothWatchesFalse(ci) == LitFalse(watchers[ci][1]) /\ LitFalse(watchers[ci][2])

\* C15 (W1 / P6): when propagate has returned with the queue drained, no
\* clause of the database, original or learned, has both watched literals
\* false; learned clauses right after their registration and the backjump
\* included.  (At a conflict return the claim allows one such clause, the
\* conflict; that half is ConflictIsOnlyFalseWatched.)
C15_WatchSoundness ==
  NoConflictReturned => \A ci \in 1..Len(clauses) : ~BothWatchesFalse(ci)

ConflictIsOnlyFalseWatched ==
  ConflictReturned =>
    \A ci \in 1..Len(clauses) :
      BothWatchesFalse(ci) => (AllFalse(ci) /\ ci = conflict)

\* The step is a call of resolve_conflict that analyzes a conflict (at a
\* level above 0) and appends a learned clause.
ConflictAnalyzed ==
  pc = "resolve" /\ level > 0 /\ Len(clauses') = Len(clauses) + 1

\* The clause the step has appended.
Learned == clauses'[Len(clauses')]

\* The variables of clause c assigned at level l before the step.
VarsAtLevel(c, l) ==
  {Abs(c[k]) : k \in {k \in 1..Len(c) : assign_level[Abs(c[k])] = l}}

\* C16: for every conflict analyzed at level L > 0, the learned clause is
\* false under the assignment held before the backjump, has exactly one
\* literal whose variable was assigned at level L, and all its other
\* literals have levels strictly below L.
C16_LearnedIsAsserting ==
  [][ConflictAnalyzed =>
       /\ \A k \in 1..Len(Learned) : LitFalse(Learned[k])
       /\ Cardinality(VarsAtLevel(Learned, level)) = 1
       /\ \A k \in 1..Len(Learned) : assign_level[Abs(Learned[k])] <= level
     ]_vars

\* After the step, literal lit is true with clause ci as its antecedent and
\* waits in the propagation queue.
AssertedBy(lit, ci) ==
  /\ assign_val'[Abs(lit)] = (IF lit > 0 THEN 1 ELSE -1)
  /\ reason'[Abs(lit)] = ci
  /\ InSeq(lit, prop_queue')

\* C17: after every conflict analyzed at a level above 0 the learned clause
\* is the last of the database and is registered under its watches, and a
\* literal of it (the asserting literal) is assigned true with the learned
\* clause as its antecedent and is in the propagation queue, whatever the
\* size of the learned clause.
C17_LearnedIsAsserted ==
  [][ConflictAnalyzed =>
       LET ci == Len(clauses') IN
         /\ ci \in DOMAIN watchers'
         /\ \A i \in 1..2 : InSeq(ci, watch_lit_to_clauses'[watchers'[ci][i]])
         /\ \E k \in 1..Len(Learned) : AssertedBy(Learned[k], ci)
     ]_vars

\* The greatest of a set of levels, 0 for the empty set.
MaxLevel(S) == IF S = {} THEN 0 ELSE CHOOSE m \in S : \A x \in S : x <= m

\* The levels, before the step, of the literals of c other than lit.
OtherLevels(c, lit) ==
  {assign_level[Abs(c[k])] : k \in {k \in 1..Len(c) : c[k] # lit}}

\* C18: the backjump level chosen by resolve_conflict is the greatest level
\* over the literals of the learned clause other than its asserting literal
\* (its literal of the conflict level), 0 when the learned clause is unit,
\* and it is the solver's level after the call.
C18_BackjumpLevel ==
  [][ConflictAnalyzed =>
       \E k \in 1..Len(Learned) :
         /\ assign_level[Abs(Learned[k])] = level
         /\ level' = MaxLevel(OtherLevels(Learned, Learned[k]))
     ]_vars

\* The trail entry at position k was sound when it was made: if it has an
\* antecedent clause, its literal occurs in that clause and the negation
\* of every other literal of the clause is on the trail before it.  (The
\* trail below an entry is the assignment held when the entry was made.)
SoundEntry(k) ==
  LET lit == assign_stack[k][2]
      c == reason[Abs(lit)]
  IN  c # None =>
        /\ InSeq(lit, clauses[c])
        /\ \A j \in 1..Len(clauses[c]) :
             clauses[c][j] # lit =>
               \E i \in 1..(k - 1) : assign_stack[i][2] = -clauses[c][j]

\* C19 (P4): whenever a variable is assigned with an antecedent clause, its
\* literal occurs in the clause and every other literal of the clause is
\* false under the assignment held at that time; for every assignment of
\* propagate, those made from queue entries older than a backjump included.
C19_AntecedentSoundness ==
  \A k \in 1..Len(assign_stack) : SoundEntry(k)

\* The clauses resolve_conflict has appended so far.
LearnedClauses == {clauses[i] : i \in (Len(in_clauses) + 1)..Len(clauses)}

\* C20: every clause resolve_conflict appends to the database is a logical
\* consequence of the original clauses: every assignment of 1..num_vars
\* that satisfies all original clauses satisfies every learned clause,
\* after any number of conflicts.
C20_LearnedAreConsequences ==
  \A m \in [1..in_num_vars -> BOOLEAN] :
    \A c \in LearnedClauses :
      Satisfies(m, in_clauses) => \E k \in 1..Len(c) : ModelTrue(m, c[k])

\* C21 (T1 / P3): in every reachable state the levels recorded along the
\* trail are non-decreasing from bottom to top, no trail entry has a level
\* above the solver's current level, and each variable's recorded level is
\* the level of its trail entry.
C21_TrailMonotone ==
  /\ \A i, k \in 1..Len(assign_stack) :
       i < k => assign_stack[i][3] <= assign_stack[k][3]
  /\ \A k \in 1..Len(assign_stack) :
       /\ assign_stack[k][3] <= level
       /\ assign_level[assign_stack[k][1]] = assign_stack[k][3]

\* C21's case: after a backjump, a trail that holds a propagated entry
\* below an entry of a higher level.
C21_Witness ==
  /\ conflict_count > 0
  /\ \E i, k \in 1..Len(assign_stack) :
       /\ i < k
       /\ assign_stack[i][3] < assign_stack[k][3]
       /\ reason[assign_stack[i][1]] # None

\* The variables that have an entry on the trail.
TrailVars == {assign_stack[k][1] : k \in 1..Len(assign_stack)}

\* C22: assign_var is only ever called on an unassigned variable, from
\* every call site; so in every reachable state no variable occurs twice
\* on the trail, and a variable has a nonzero value exactly when it has an
\* entry on the trail.  (A call on an assigned variable would leave a
\* second entry for it: no action pops the trail after it has pushed.)
C22_AssignedOnce ==
  /\ \A i, k \in 1..Len(assign_stack) :
       i # k => assign_stack[i][1] # assign_stack[k][1]
  /\ \A v \in 1..num_vars : assign_val[v] # 0 <=> v \in TrailVars

\* C22's case: after a backjump has unassigned variables, the trail holds
\* an initial unit, a decision and a propagated literal.
C22_Witness ==
  /\ conflict_count > 0
  /\ \E k \in 1..Len(assign_stack) :
       assign_stack[k][3] = 0 /\ reason[assign_stack[k][1]] = None
  /\ \E k \in 1..Len(assign_stack) :
       assign_stack[k][3] > 0 /\ reason[assign_stack[k][1]] = None
  /\ \E k \in 1..Len(assign_stack) : reason[assign_stack[k][1]] # None

\* v is unassigned and no unassigned variable has a greater activity, nor
\* the same activity and a smaller index.
IsBestUnassigned(v) ==
  /\ v \in 1..num_vars
  /\ assign_val[v] = 0
  /\ \A w \in 1..num_vars :
       assign_val[w] = 0 =>
         \/ var_activity[v] > var_activity[w]
         \/ var_activity[v] = var_activity[w] /\ v <= w

BacktrackEffect(b) ==
  LET t == backtrack(Self, b)
      n == Len(t.assign_stack)
  IN
    /\ n <= Len(assign_stack)
    /\ t.assign_stack = SubSeq(assign_stack, 1, n)
    /\ \A k \in 1..Len(assign_stack) : k <= n <=> assign_stack[k][3] <= b
    /\ \A v \in 1..num_vars :
         IF assign_val[v] # 0 /\ assign_level[v] > b
         THEN /\ t.assign_val[v] = 0
              /\ t.assign_level[v] = 0
              /\ t.reason[v] = None
         ELSE /\ t.assign_val[v] = assign_val[v]
              /\ t.assign_level[v] = assign_level[v]
              /\ t.reason[v] = reason[v]
    /\ t.clauses = clauses
    /\ t.watchers = watchers
    /\ t.watch_lit_to_clauses = watch_lit_to_clauses

\* C24: backtrack(b) pops trail entries in reverse trail order and clears
\* the value, level and antecedent of exactly the variables assigned at
\* levels above b; it leaves those of every variable assigned at a level
\* <= b, the clause database, the watch slots and the watch index
\* unchanged.  Checked for every b up to the current level in every
\* reachable state.
C24_BacktrackFrame == \A b \in 0..level : BacktrackEffect(b)

\* C24's case: a conflict is about to be analyzed and the backjump that
\* resolve_conflict will make pops a propagated entry and keeps an entry.
C24_Witness ==
  /\ pc = "resolve"
  /\ level > 0
  /\ LET b == backtrack_level_of(Self, analyze(Self, clauses[conflict]), 1, 0)
         n == Len(backtrack(Self, b).assign_stack)
     IN /\ n >= 1
        /\ n + 2 <= Len(assign_stack)
        /\ reason[assign_stack[Len(assign_stack)][1]] # None

\* How many times clause index ci is listed under literal l.
Listed(ci, l) ==
  Cardinality({k \in 1..Len(watch_lit_to_clauses[l]) :
                 watch_lit_to_clauses[l][k] = ci})

\* C25: in every reachable state clause index i is listed under literal l
\* in the watch index exactly when l is one of clause i's two watch slots,
\* and at most once; clauses with a repeated literal or with both l and -l
\* included, across every watch move of propagate.
C25_WatchIndexConsistent ==
  \A ci \in DOMAIN watchers :
    \A l \in Lits(num_vars) :
      Listed(ci, l) = IF l = watchers[ci][1] \/ l = watchers[ci][2] THEN 1 ELSE 0

IsPrefix(p, q) == Len(p) <= Len(q) /\ SubSeq(q, 1, Len(p)) = p

\* A solver has been built from the input.
SolverBuilt == pc \notin {"parse", "build"} /\ result # "ValueError"

\* C26: clause indices are stable for the lifetime of a solve: the database
\* only grows by appending, the original clauses remain its prefix, no
\* clause is removed and the literal sequence stored at an index never
\* changes, whatever the watch moves.
C26_ClauseIndicesStable ==
  /\ [][SolverBuilt => IsPrefix(clauses, clauses')]_vars
  /\ [](SolverBuilt => IsPrefix(in_clauses, clauses))

\* C26's case: a learned clause has been appended and a watch of an
\* original clause has moved.
C26_Witness ==
  /\ Len(clauses) > Len(in_clauses)
  /\ \E ci \in 1..Len(in_clauses) : watchers[ci] # first_watches(clauses[ci])

====
